---- MODULE Spec2Model ----
(***************************************************************************)
(* Model of the new-site monthly volume projection of app.py (tab 3,       *)
(* "가정용"): the parameter table `params`, the site table `new_sites`,     *)
(* and one full script run after every edit of either table.               *)
(*                                                                         *)
(* Text is a sequence of one-character strings.  Numbers read with float() *)
(* are kept in tenths, volumes in thousandths of a cubic metre             *)
(* (units * tenths * percent), so that hh*avg*(p/100) is exact; binary     *)
(* floating-point rounding is not part of the model.                       *)
(***************************************************************************)
EXTENDS Integers, Sequences, FiniteSets

\* Most rows the site editor holds in the model.
MaxSites == 2

----------------------------------------------------------------------------
(* Cells of the two editable tables *)

IntCell(n) == [k |-> "int", v |-> n, s |-> <<>>]
\* a float cell holds its value in tenths
FloatCell(t) == [k |-> "float", v |-> t, s |-> <<>>]
StrCell(t) == [k |-> "str", v |-> 0, s |-> t]
\* an empty cell of the site editor (None / NaN)
NaN == [k |-> "nan", v |-> 0, s |-> <<>>]
\* a parameter whose row was deleted from the parameter editor
NoRow == [k |-> "norow", v |-> 0, s |-> <<>>]

----------------------------------------------------------------------------
(* Python text conversions *)

Digits == <<"0", "1", "2", "3", "4", "5", "6", "7", "8", "9">>

IsDigit(c) == \E i \in 1..10 : Digits[i] = c

DigitVal(c) == (CHOOSE i \in 1..10 : Digits[i] = c) - 1

AllDigits(t) == \A i \in 1..Len(t) : IsDigit(t[i])

RECURSIVE DigitsVal(_)
DigitsVal(t) ==
    IF t = <<>> THEN 0
    ELSE DigitsVal(SubSeq(t, 1, Len(t) - 1)) * 10 + DigitVal(t[Len(t)])

RECURSIVE Strip(_)
\* str.strip(), as int() and float() apply it to their argument
Strip(t) ==
    IF t = <<>> THEN t
    ELSE IF t[1] = " " THEN Strip(Tail(t))
    ELSE IF t[Len(t)] = " " THEN Strip(SubSeq(t, 1, Len(t) - 1))
    ELSE t

\* int(text): optional blanks, optional sign, one or more digits
ParseInt(t) ==
    LET u == Strip(t)
        signed == u # <<>> /\ u[1] \in {"+", "-"}
        body == IF signed THEN Tail(u) ELSE u
        ok == body # <<>> /\ AllDigits(body)
    IN  [ok |-> ok,
         v |-> IF ~ok THEN 0
               ELSE IF signed /\ u[1] = "-" THEN 0 - DigitsVal(body)
               ELSE DigitsVal(body)]

RECURSIVE Split(_, _)
\* text.split(sep) for a one-character separator
Split(t, sep) ==
    IF \A i \in 1..Len(t) : t[i] # sep THEN <<t>>
    ELSE LET i == CHOOSE j \in 1..Len(t) :
                     t[j] = sep /\ \A h \in 1..(j - 1) : t[h] # sep
         IN  <<SubSeq(t, 1, i - 1)>> \o Split(SubSeq(t, i + 1, Len(t)), sep)

\* float(text), in tenths: optional blanks and sign, digits, and at most one
\* digit after the point (the texts of the model have no more)
ParseFloat(t) ==
    LET u == Strip(t)
        signed == u # <<>> /\ u[1] \in {"+", "-"}
        body == IF signed THEN Tail(u) ELSE u
        parts == Split(body, ".")
        whole == parts[1]
        frac == IF Len(parts) = 2 THEN parts[2] ELSE <<>>
        ok == /\ Len(parts) <= 2
              /\ AllDigits(whole) /\ AllDigits(frac)
              /\ Len(whole) + Len(frac) > 0
              /\ Len(frac) <= 1
        mag == DigitsVal(whole) * 10 + DigitsVal(frac)
    IN  [ok |-> ok,
         v |-> IF ~ok THEN 0
               ELSE IF signed /\ u[1] = "-" THEN 0 - mag ELSE mag]

RECURSIVE NatToStr(_)
NatToStr(n) ==
    IF n < 10 THEN <<Digits[n + 1]>>
    ELSE NatToStr(n \div 10) \o <<Digits[(n % 10) + 1]>>

\* str(n) / f"{n}" of an int
IntToStr(n) == IF n < 0 THEN <<"-">> \o NatToStr(0 - n) ELSE NatToStr(n)

\* int(cell): the value of r["세대수"] handed to int()
PyInt(c) ==
    CASE c.k = "int" -> [ok |-> TRUE, v |-> c.v]
      [] c.k = "float" ->
            \* truncation toward zero
            [ok |-> TRUE,
             v |-> IF c.v >= 0 THEN c.v \div 10 ELSE 0 - ((0 - c.v) \div 10)]
      [] c.k = "str" -> ParseInt(c.s)
      [] c.k = "nan" -> [ok |-> FALSE, v |-> 0]

\* float(cell), in tenths; parameter cells are never empty
PyFloat(c) ==
    CASE c.k = "int" -> [ok |-> TRUE, v |-> c.v * 10]
      [] c.k = "float" -> [ok |-> TRUE, v |-> c.v]
      [] c.k = "str" -> ParseFloat(c.s)

\* str(cell) of a text or int cell
PyStr(c) ==
    CASE c.k = "str" -> c.s
      [] c.k = "int" -> IntToStr(c.v)
      [] c.k = "nan" -> <<"n", "a", "n">>

----------------------------------------------------------------------------
(* Calendar months: pd.Period(..., freq="M") and Period.to_timestamp() *)

\* pd.Period(f"{y}-{m}", freq="M"): the text is parsed again; a four-digit year
\* and a month 1..12 give the ordinal counted in months from 1970-01, any
\* other month raises.  (Start texts of the model keep the year to four
\* digits.)
Period(y, m) ==
    LET text == IntToStr(y) \o <<"-">> \o IntToStr(m)
        parts == Split(text, "-")
        ok == /\ Len(parts) = 2
              /\ Len(parts[1]) = 4 /\ AllDigits(parts[1])
              /\ Len(parts[2]) \in 1..2 /\ AllDigits(parts[2])
              /\ DigitsVal(parts[2]) \in 1..12
    IN  [ok |-> ok,
         ord |-> IF ok THEN (DigitsVal(parts[1]) - 1970) * 12
                            + DigitsVal(parts[2]) - 1
                 ELSE 0]

\* the year turns one month late
to_timestamp_late(ord) ==
    [year |-> 1970 + ((ord - 1) \div 12), month |-> (ord % 12) + 1]

\* Period.to_timestamp(): first day of the month, kept as (year, month)
to_timestamp(ord) == [year |-> 1970 + (ord \div 12), month |-> (ord % 12) + 1]

\* order of the "연월" timestamps
TsLess(a, b) == a.year < b.year \/ (a.year = b.year /\ a.month < b.month)

----------------------------------------------------------------------------
(* The projection of one site *)

\* a site of no units returns an empty frame
monthly_new_skipzero(hh, start, avg, rmp) ==
    LET parts == Split(start, "-")
        ymok == /\ Len(parts) = 2
                /\ ParseInt(parts[1]).ok /\ ParseInt(parts[2]).ok
        y == ParseInt(parts[1]).v
        m == ParseInt(parts[2]).v
        per == IF ymok THEN Period(y, m) ELSE [ok |-> FALSE, ord |-> 0]
        ok == ymok /\ (rmp = <<>> \/ per.ok)
    IN  [ok |-> ok,
         out |-> IF ~ok \/ hh = 0 THEN <<>>
                 ELSE [i \in 1..Len(rmp) |->
                          [ym |-> to_timestamp(per.ord + (i - 1)),
                           vol |-> hh * avg * rmp[i]]]]

\* p // 100 in place of p / 100
monthly_new_floordiv(hh, start, avg, rmp) ==
    LET parts == Split(start, "-")
        ymok == /\ Len(parts) = 2
                /\ ParseInt(parts[1]).ok /\ ParseInt(parts[2]).ok
        y == ParseInt(parts[1]).v
        m == ParseInt(parts[2]).v
        per == IF ymok THEN Period(y, m) ELSE [ok |-> FALSE, ord |-> 0]
        ok == ymok /\ (rmp = <<>> \/ per.ok)
    IN  [ok |-> ok,
         out |-> IF ~ok THEN <<>>
                 ELSE [i \in 1..Len(rmp) |->
                          [ym |-> to_timestamp(per.ord + (i - 1)),
                           vol |-> hh * avg * ((rmp[i] \div 100) * 100)]]]

\* One row of the returned frame: ym is "연월", vol is "신규물량(㎥)" in
\* thousandths (hh * tenths * percent).
monthly_new(hh, start, avg, rmp) ==
    LET parts == Split(start, "-")
        ymok == /\ Len(parts) = 2
                /\ ParseInt(parts[1]).ok /\ ParseInt(parts[2]).ok
        y == ParseInt(parts[1]).v
        m == ParseInt(parts[2]).v
        per == IF ymok THEN Period(y, m) ELSE [ok |-> FALSE, ord |-> 0]
        ok == ymok /\ (rmp = <<>> \/ per.ok)
    IN  [ok |-> ok,
         out |-> IF ~ok THEN <<>>
                 ELSE [i \in 1..Len(rmp) |->
                          [ym |-> to_timestamp(per.ord + (i - 1)),
                           vol |-> hh * avg * rmp[i]]]]

----------------------------------------------------------------------------
(* Shared parameters *)

ParamNames == {"hh_avg", "ramp", "sens", "warm", "cold"}

T_default_ramp == <<"3", "0", ",", "6", "0", ",", "8", "5", ",", "1", "0", "0">>

\* base_params: "세대당 평균사용량(㎥/월)", "입주 램프(1~4분기, %)",
\* "가정용 민감도(㎥/°C·월)", "온난 편차(°C)", "한랭 편차(°C)"
base_params ==
    [n \in ParamNames |->
        CASE n = "hh_avg" -> FloatCell(300)
          [] n = "ramp" -> StrCell(T_default_ramp)
          [] n = "sens" -> IntCell(7800000)
          [] n = "warm" -> FloatCell(5)
          [] n = "cold" -> FloatCell(-10)]

\* the value of the row named name, the default when there is no such row
get_param(p, name, default) ==
    IF p[name] = NoRow THEN default ELSE p[name]

\* entries that are not integers are left out instead of raising
ParseRamp_lenient(c) ==
    LET parts == Split(PyStr(c), ",")
        good == SelectSeq(parts, LAMBDA t : ParseInt(t).ok)
    IN  [ok |-> TRUE,
         v |-> [i \in 1..Len(good) |-> ParseInt(good[i]).v]]

\* [int(x) for x in str(cell).split(",")]
ParseRamp(c) ==
    LET parts == Split(PyStr(c), ",")
    IN  [ok |-> \A i \in 1..Len(parts) : ParseInt(parts[i]).ok,
         v |-> [i \in 1..Len(parts) |-> ParseInt(parts[i]).v]]

----------------------------------------------------------------------------
(* The site table and the aggregation loop *)

Site(name, units, start) == [name |-> name, units |-> units, start |-> start]

\* dropna(subset=[units, start])
dropna_subset(sites) ==
    SelectSeq(sites, LAMBDA r : r.units # NaN /\ r.start # NaN)

\* DataFrame.dropna(): rows with no empty cell
dropna(sites) ==
    SelectSeq(sites, LAMBDA r : r.name # NaN /\ r.units # NaN /\ r.start # NaN)

\* the body of the try block for one row
TrySite(r, avg, rmp) ==
    LET hh == PyInt(r.units)
    IN  IF ~hh.ok THEN [ok |-> FALSE, out |-> <<>>]
        ELSE monthly_new(hh.v, PyStr(r.start), avg, rmp)

\* one iteration without the except clause: the error leaves the loop
SiteStep_uncaught(acc, r, avg, rmp) ==
    LET res == TrySite(r, avg, rmp)
    IN  IF res.ok THEN [raised |-> acc.raised, frames |-> Append(acc.frames, res.out)]
        ELSE [raised |-> TRUE, frames |-> acc.frames]

\* one iteration: append the frame, or "except Exception: pass"
SiteStep(acc, r, avg, rmp) ==
    LET res == TrySite(r, avg, rmp)
    IN  IF res.ok THEN [raised |-> acc.raised, frames |-> Append(acc.frames, res.out)]
        ELSE acc

RECURSIVE CalcLoop(_, _, _)
CalcLoop(rows, avg, rmp) ==
    IF rows = <<>> THEN [raised |-> FALSE, frames |-> <<>>]
    ELSE LET acc == CalcLoop(SubSeq(rows, 1, Len(rows) - 1), avg, rmp)
         IN  IF acc.raised THEN acc
             ELSE SiteStep(acc, rows[Len(rows)], avg, rmp)

RECURSIVE concat(_)
\* pd.concat(calc)
concat(frames) ==
    IF frames = <<>> THEN <<>> ELSE Head(frames) \o concat(Tail(frames))

RECURSIVE SumVol(_, _)
SumVol(rows, key) ==
    IF rows = <<>> THEN 0
    ELSE (IF Head(rows).ym = key THEN Head(rows).vol ELSE 0)
         + SumVol(Tail(rows), key)

RECURSIVE SortKeys(_)
\* the group keys in ascending order (groupby sorts its keys)
SortKeys(keys) ==
    IF keys = {} THEN <<>>
    ELSE LET lo == CHOOSE a \in keys : \A b \in keys \ {a} : TsLess(a, b)
         IN  <<lo>> \o SortKeys(keys \ {lo})

RECURSIVE FirstVol(_, _)
FirstVol(rows, key) ==
    IF Head(rows).ym = key THEN Head(rows).vol ELSE FirstVol(Tail(rows), key)

\* .first() in place of .sum()
groupby_first(rows) ==
    LET keys == SortKeys({rows[i].ym : i \in 1..Len(rows)})
    IN  [j \in 1..Len(keys) |-> [ym |-> keys[j], vol |-> FirstVol(rows, keys[j])]]

RECURSIVE SeenKeys(_)
SeenKeys(rows) ==
    IF rows = <<>> THEN <<>>
    ELSE LET rest == SeenKeys(SubSeq(rows, 1, Len(rows) - 1))
         IN  IF \E j \in 1..Len(rest) : rest[j] = rows[Len(rows)].ym THEN rest
             ELSE Append(rest, rows[Len(rows)].ym)

\* groupby(..., sort=False): the keys in the order they are first seen
groupby_unsorted(rows) ==
    LET keys == SeenKeys(rows)
    IN  [j \in 1..Len(keys) |-> [ym |-> keys[j], vol |-> SumVol(rows, keys[j])]]

\* groupby("연월", as_index=False)["신규물량(㎥)"].sum()
groupby_sum(rows) ==
    LET keys == SortKeys({rows[i].ym : i \in 1..Len(rows)})
    IN  [j \in 1..Len(keys) |-> [ym |-> keys[j], vol |-> SumVol(rows, keys[j])]]

----------------------------------------------------------------------------
(* One run of the script over the two tables *)

\* lines 185-188: the series is made and handed over only if calc is not empty
RunResult(avg, rmp, pok, loop) ==
    [errAt |-> IF ~pok THEN "params" ELSE IF loop.raised THEN "sites" ELSE "none",
     hh_avg |-> IF avg.ok THEN avg.v ELSE 0,
     ramp |-> IF avg.ok /\ rmp.ok THEN rmp.v ELSE <<>>,
     calc |-> IF pok /\ ~loop.raised THEN loop.frames ELSE <<>>,
     new_df |-> IF pok /\ ~loop.raised /\ loop.frames # <<>>
                THEN groupby_sum(concat(loop.frames)) ELSE <<>>,
     rendered |-> pok /\ ~loop.raised /\ loop.frames # <<>>]

\* lines 179-184: the loop is reached only if no parameter raised
RunSites(avg, rmp, pok, sites) ==
    RunResult(avg, rmp, pok,
              IF pok THEN CalcLoop(dropna(sites), avg.v, rmp.v)
              ELSE [raised |-> FALSE, frames |-> <<>>])

\* lines 159-165: the five parameters are read before the site table
Run(p, sites) ==
    \* hh_avg, ramp, sens, warm, cold
    RunSites(PyFloat(get_param(p, "hh_avg", IntCell(30))),
             ParseRamp(get_param(p, "ramp", StrCell(T_default_ramp))),
             /\ PyFloat(get_param(p, "hh_avg", IntCell(30))).ok
             /\ ParseRamp(get_param(p, "ramp", StrCell(T_default_ramp))).ok
             /\ PyFloat(get_param(p, "sens", IntCell(7800000))).ok
             /\ PyFloat(get_param(p, "warm", FloatCell(5))).ok
             /\ PyFloat(get_param(p, "cold", FloatCell(-10))).ok,
             sites)

----------------------------------------------------------------------------
(* State *)

VARIABLES
    params,     \* the parameter editor: name -> cell, NoRow when deleted
    new_sites,  \* the site editor: rows of name, units, start cells
    errAt,      \* where the last run stopped with an exception: "none", "params", "sites"
    hh_avg,     \* parsed consumption, in tenths
    ramp,       \* parsed ramp percentages
    calc,       \* the frames appended by the loop
    new_df,     \* the aggregated series handed to the chart and the CSV
    rendered    \* whether the chart and the download button were produced

vars == <<params, new_sites, errAt, hh_avg, ramp, calc, new_df, rendered>>

T_A == <<"A">>
T_2026_03 == <<"2", "0", "2", "6", "-", "0", "3">>
T_2026_11 == <<"2", "0", "2", "6", "-", "1", "1">>
T_2026_12 == <<"2", "0", "2", "6", "-", "1", "2">>
T_2026_13 == <<"2", "0", "2", "6", "-", "1", "3">>
T_bad == <<"b", "a", "d">>
T_2p5 == <<"2", ".", "5">>
T_abc == <<"a", "b", "c">>
T_0_100 == <<"0", ",", "1", "0", "0">>
T_30p5_60 == <<"3", "0", ".", "5", ",", "6", "0">>
T_30__60 == <<"3", "0", ",", ",", "6", "0">>
T_m30_60 == <<"-", "3", "0", ",", "6", "0">>

\* tmpl: the row the site editor starts with (its name "예: A" is written A)
tmpl == <<Site(StrCell(T_A), IntCell(500), StrCell(T_2026_03))>>

\* the rows the analyst types or pastes into the site editor
SiteRows ==
    {Site(StrCell(T_A), IntCell(500), StrCell(T_2026_03)),
     Site(StrCell(T_A), IntCell(500), StrCell(T_2026_11)),
     Site(StrCell(T_A), IntCell(500), StrCell(T_2026_12)),
     Site(StrCell(T_A), IntCell(0), StrCell(T_2026_03)),
     Site(StrCell(T_A), IntCell(-5), StrCell(T_2026_03)),
     Site(StrCell(T_A), StrCell(T_abc), StrCell(T_2026_03)),
     Site(StrCell(T_A), IntCell(500), StrCell(T_bad)),
     Site(StrCell(T_A), IntCell(500), StrCell(T_2026_13)),
     Site(NaN, IntCell(500), StrCell(T_2026_03))}

\* the values the analyst types into the parameter editor
AvgCells == {FloatCell(300), StrCell(T_2p5), StrCell(T_abc)}
RampCells == {StrCell(T_default_ramp), StrCell(T_0_100), StrCell(T_30p5_60),
              StrCell(T_30__60), StrCell(T_abc), StrCell(T_m30_60)}

\* the script runs again after every edit
Rerun(p, sites) ==
    \E r \in {Run(p, sites)} :
        /\ params' = p
        /\ new_sites' = sites
        /\ errAt' = r.errAt
        /\ hh_avg' = r.hh_avg
        /\ ramp' = r.ramp
        /\ calc' = r.calc
        /\ new_df' = r.new_df
        /\ rendered' = r.rendered

Init ==
    \E r \in {Run(base_params, tmpl)} :
        /\ params = base_params
        /\ new_sites = tmpl
        /\ errAt = r.errAt
        /\ hh_avg = r.hh_avg
        /\ ramp = r.ramp
        /\ calc = r.calc
        /\ new_df = r.new_df
        /\ rendered = r.rendered

\* a new row of the site editor is empty
AddRow ==
    /\ Len(new_sites) < MaxSites
    /\ Rerun(params, Append(new_sites, Site(NaN, NaN, NaN)))

DeleteRow ==
    \E i \in 1..Len(new_sites) :
        Rerun(params, SubSeq(new_sites, 1, i - 1) \o SubSeq(new_sites, i + 1, Len(new_sites)))

\* the cells of one row are typed or pasted
EditRow ==
    \E i \in 1..Len(new_sites), r \in SiteRows :
        /\ r # new_sites[i]
        /\ Rerun(params, [new_sites EXCEPT ![i] = r])

EditAvg ==
    \E c \in AvgCells :
        /\ c # params["hh_avg"]
        /\ Rerun([params EXCEPT !["hh_avg"] = c], new_sites)

EditRamp ==
    \E c \in RampCells :
        /\ c # params["ramp"]
        /\ Rerun([params EXCEPT !["ramp"] = c], new_sites)

\* deleting a parameter row makes get_param fall back to its default
DeleteParam ==
    \E n \in {"hh_avg", "ramp"} :
        /\ params[n] # NoRow
        /\ Rerun([params EXCEPT ![n] = NoRow], new_sites)

Next ==
    \/ AddRow
    \/ DeleteRow
    \/ EditRow
    \/ EditAvg
    \/ EditRamp
    \/ DeleteParam

Spec == Init /\ [][Next]_vars

----------------------------------------------------------------------------
(* What the specification says of a site row, read off the cells without   *)
(* the program's conversions                                               *)

Complete(r) == r.name # NaN /\ r.units # NaN /\ r.start # NaN

\* the unit count is an integer: an integer cell or a text of digits
UnitsIsInteger(r) ==
    \/ r.units.k = "int"
    \/ r.units.k = "str" /\ r.units.s # <<>>
       /\ \A i \in 1..Len(r.units.s) : r.units.s[i] \in {Digits[d] : d \in 1..10}

\* the start period reads YYYY-MM with a month 01..12
StartIsYearMonth(r) ==
    /\ r.start.k = "str"
    /\ Len(r.start.s) = 7
    /\ r.start.s[5] = "-"
    /\ \A i \in {1, 2, 3, 4, 6, 7} : IsDigit(r.start.s[i])
    /\ DigitVal(r.start.s[6]) * 10 + DigitVal(r.start.s[7]) \in 1..12

StartYear(r) ==
    DigitVal(r.start.s[1]) * 1000 + DigitVal(r.start.s[2]) * 100
    + DigitVal(r.start.s[3]) * 10 + DigitVal(r.start.s[4])

StartMonth(r) == DigitVal(r.start.s[6]) * 10 + DigitVal(r.start.s[7])

Malformed(r) == ~UnitsIsInteger(r) \/ ~StartIsYearMonth(r)

\* a row with every field present and well formed; its frame is one of calc
Projectable(r) == Complete(r) /\ ~Malformed(r)

UnitsOf(r) == IF r.units.k = "int" THEN r.units.v ELSE DigitsVal(r.units.s)

ValidSite(r) == Projectable(r) /\ UnitsOf(r) >= 0

\* the rows whose frames calc holds, in order
ProjectedRows == SelectSeq(new_sites, Projectable)

----------------------------------------------------------------------------
(* C1 *)

\* C1: per-site error isolation.  No error of a site row escapes the loop;
\* every malformed row (units not an integer, start not a year-month)
\* contributes nothing and every other projected row a whole frame; the
\* aggregate is the one computed over the rows that are not malformed.
C1_ErrorIsolation ==
    /\ errAt # "sites"
    /\ errAt = "none" =>
         \A ref \in {Run(params, SelectSeq(new_sites, LAMBDA r : ~Malformed(r)))} :
            /\ Len(calc) = Len(ProjectedRows)
            /\ \A k \in 1..Len(calc) : Len(calc[k]) = Len(ramp)
            /\ new_df = ref.new_df
            /\ rendered = ref.rendered

\* a malformed row and a valid row in the same run, the series produced
C1_Witness ==
    /\ errAt = "none" /\ rendered
    /\ \E i, j \in 1..Len(new_sites) :
          /\ Complete(new_sites[i]) /\ Malformed(new_sites[i])
          /\ ValidSite(new_sites[j])

----------------------------------------------------------------------------
(* C2 *)

\* C2: a site whose unit count is negative is skipped: it contributes no
\* entry, and the run produces what it produces without that row.
C2_NegativeUnitsSkipped ==
    errAt = "none" =>
        \A ref \in {Run(params, SelectSeq(new_sites,
                        LAMBDA r : ~(Projectable(r) /\ UnitsOf(r) < 0)))} :
            /\ calc = ref.calc
            /\ new_df = ref.new_df
            /\ rendered = ref.rendered

----------------------------------------------------------------------------
(* C3 *)

ExampleSeries ==
    <<[ym |-> [year |-> 2026, month |-> 3], vol |-> 4500000],
      [ym |-> [year |-> 2026, month |-> 4], vol |-> 9000000],
      [ym |-> [year |-> 2026, month |-> 5], vol |-> 12750000],
      [ym |-> [year |-> 2026, month |-> 6], vol |-> 15000000]>>

IsExampleInput ==
    /\ Len(new_sites) = 1
    /\ new_sites[1].units = IntCell(500) /\ new_sites[1].start = StrCell(T_2026_03)
    /\ new_sites[1].name # NaN
    /\ hh_avg = 300 /\ ramp = <<30, 60, 85, 100>>

\* C3: for a valid site, non-negative consumption and non-negative ramp
\* entries, the entry at ramp index i has volume units * c * ramp[i] / 100
\* (in thousandths: units * tenths of c * ramp[i]); the example site
\* {500, 2026-03}, c = 30, ramp 30,60,85,100 gives 4500, 9000, 12750, 15000.
C3_VolumeFormula ==
    errAt = "none" =>
        /\ Len(calc) = Len(ProjectedRows)
        /\ \A k \in 1..Len(ProjectedRows) :
              (/\ ValidSite(ProjectedRows[k])
               /\ hh_avg >= 0
               /\ \A i \in 1..Len(ramp) : ramp[i] >= 0)
              => \A i \in 1..Len(ramp) :
                    /\ i \in DOMAIN calc[k]
                    /\ calc[k][i].vol = UnitsOf(ProjectedRows[k]) * hh_avg * ramp[i]
        /\ IsExampleInput => new_df = ExampleSeries

C3_Witness == errAt = "none" /\ IsExampleInput /\ new_df = ExampleSeries

----------------------------------------------------------------------------
(* C4 *)

\* the ramp text in force: the cell of the parameter table, or the default
RampText == IF params["ramp"] = NoRow THEN T_default_ramp ELSE params["ramp"].s

\* the number of comma-separated entries of the ramp text
RampLength == Cardinality({i \in 1..Len(RampText) : RampText[i] = ","}) + 1

\* the places (frame, index) of the entries of calc
Entries == UNION {{<<k, i>> : i \in 1..Len(calc[k])} : k \in 1..Len(calc)}

\* C4: a valid site gives exactly one entry per ramp entry and none beyond;
\* a site of 0 units gives that many entries of volume zero, and its periods
\* are in the aggregate with total 0 when no other site covers them.
C4_EntriesPerSite ==
    errAt = "none" =>
        /\ Len(calc) = Len(ProjectedRows)
        /\ \A k \in 1..Len(ProjectedRows) :
              ValidSite(ProjectedRows[k]) =>
                 /\ Len(calc[k]) = RampLength
                 /\ UnitsOf(ProjectedRows[k]) = 0 =>
                       \A i \in 1..Len(calc[k]) :
                          /\ calc[k][i].vol = 0
                          /\ \E j \in 1..Len(new_df) : new_df[j].ym = calc[k][i].ym
                          /\ (\A e \in Entries :
                                 e[1] # k => calc[e[1]][e[2]].ym # calc[k][i].ym)
                             => \E j \in 1..Len(new_df) :
                                   new_df[j] = [ym |-> calc[k][i].ym, vol |-> 0]

\* a site of 0 units alone under the default ramp: four rows of total 0
C4_Witness ==
    /\ errAt = "none" /\ rendered
    /\ Len(ProjectedRows) = 1 /\ ValidSite(ProjectedRows[1])
    /\ UnitsOf(ProjectedRows[1]) = 0
    /\ ramp = <<30, 60, 85, 100>> /\ hh_avg = 300
    /\ Len(new_df) = 4 /\ \A j \in 1..4 : new_df[j].vol = 0

----------------------------------------------------------------------------
(* C5 *)

NextMonth(ym) ==
    IF ym.month = 12 THEN [year |-> ym.year + 1, month |-> 1]
    ELSE [year |-> ym.year, month |-> ym.month + 1]

RECURSIVE AddMonths(_, _)
AddMonths(ym, n) == IF n = 0 THEN ym ELSE NextMonth(AddMonths(ym, n - 1))

\* C5: the i-th entry of a valid site is at the start period advanced by i
\* calendar months (0-based), consecutive entries are one month apart, and
\* December is followed by January of the next year: a start of 2026-11 with
\* four ramp entries gives 2026-11, 2026-12, 2027-01, 2027-02.
C5_ConsecutiveMonths ==
    errAt = "none" =>
        /\ Len(calc) = Len(ProjectedRows)
        /\ \A k \in 1..Len(ProjectedRows) :
              ValidSite(ProjectedRows[k]) =>
                 /\ \A i \in 1..Len(calc[k]) :
                       /\ calc[k][i].ym =
                             AddMonths([year |-> StartYear(ProjectedRows[k]),
                                        month |-> StartMonth(ProjectedRows[k])], i - 1)
                       /\ i > 1 => calc[k][i].ym = NextMonth(calc[k][i - 1].ym)
                 /\ (ProjectedRows[k].start = StrCell(T_2026_11) /\ Len(ramp) = 4)
                    => [i \in 1..Len(calc[k]) |-> calc[k][i].ym]
                       = <<[year |-> 2026, month |-> 11], [year |-> 2026, month |-> 12],
                           [year |-> 2027, month |-> 1], [year |-> 2027, month |-> 2]>>

\* a valid site starting 2026-11 under a four-entry ramp reached January 2027
C5_Witness ==
    /\ errAt = "none" /\ Len(ramp) = 4
    /\ Len(calc) = Len(ProjectedRows)
    /\ \E k \in 1..Len(ProjectedRows) :
          /\ ValidSite(ProjectedRows[k])
          /\ ProjectedRows[k].start = StrCell(T_2026_11)
          /\ calc[k][3].ym = [year |-> 2027, month |-> 1]

----------------------------------------------------------------------------
(* C6 *)

RECURSIVE SumOver(_)
\* the sum of the volumes at a set of places of calc
SumOver(S) ==
    IF S = {} THEN 0
    ELSE LET e == CHOOSE x \in S : TRUE
         IN  calc[e[1]][e[2]].vol + SumOver(S \ {e})

AsMapping(df) == {<<df[j].ym, df[j].vol>> : j \in 1..Len(df)}

Perms(n) == {f \in [1..n -> 1..n] : \A a, b \in 1..n : a # b => f[a] # f[b]}

\* C6: every row of the aggregate holds the sum of the volumes of all
\* projected entries of its period, every projected period has a row, two
\* identical sites give twice the single site's series, and the mapping from
\* period to volume is the same for every permutation of the site rows.
C6_SumAndOrderIndependence ==
    errAt = "none" =>
        /\ \A j \in 1..Len(new_df) :
              new_df[j].vol =
                 SumOver({e \in Entries : calc[e[1]][e[2]].ym = new_df[j].ym})
        /\ \A e \in Entries :
              \E j \in 1..Len(new_df) : new_df[j].ym = calc[e[1]][e[2]].ym
        /\ (Len(new_sites) = 2 /\ new_sites[1] = new_sites[2] /\ Len(calc) = 2)
           => /\ Len(new_df) = Len(calc[1])
              /\ \A j \in 1..Len(new_df) :
                    new_df[j] = [ym |-> calc[1][j].ym, vol |-> 2 * calc[1][j].vol]
        /\ \A f \in Perms(Len(new_sites)) :
              AsMapping(Run(params, [i \in 1..Len(new_sites) |-> new_sites[f[i]]]).new_df)
              = AsMapping(new_df)

\* two valid sites with different starts whose entries meet in one period
C6_Witness ==
    /\ errAt = "none" /\ rendered /\ Len(calc) = 2
    /\ Len(ProjectedRows) = 2
    /\ ProjectedRows[1].start # ProjectedRows[2].start
    /\ \E i1 \in 1..Len(calc[1]), i2 \in 1..Len(calc[2]), j \in 1..Len(new_df) :
          /\ calc[1][i1].ym = calc[2][i2].ym
          /\ new_df[j].ym = calc[1][i1].ym
          /\ calc[1][i1].vol > 0 /\ calc[2][i2].vol > 0
          /\ new_df[j].vol = calc[1][i1].vol + calc[2][i2].vol

----------------------------------------------------------------------------
(* C7 *)

MonthIndex(ym) == ym.year * 12 + ym.month

\* C7: the series handed to the chart and the CSV has one row per distinct
\* projected period and its rows are in strictly ascending period order.
C7_AscendingOneRowPerPeriod ==
    rendered =>
        /\ \A j \in 1..(Len(new_df) - 1) :
              MonthIndex(new_df[j].ym) < MonthIndex(new_df[j + 1].ym)
        /\ {new_df[j].ym : j \in 1..Len(new_df)}
           = {calc[e[1]][e[2]].ym : e \in Entries}
        /\ Len(new_df) = Cardinality({calc[e[1]][e[2]].ym : e \in Entries})

\* the later site comes first in the table
C7_Witness ==
    /\ rendered /\ Len(calc) = 2
    /\ MonthIndex(calc[1][1].ym) > MonthIndex(calc[2][1].ym)
    /\ Len(new_df) > Len(calc[1])

----------------------------------------------------------------------------
(* C8 *)

\* C8: no projected volume is negative, the volume is zero where the ramp
\* percentage is zero, and no total of the aggregate is negative.
C8_VolumesNonNegative ==
    /\ \A e \in Entries :
          /\ calc[e[1]][e[2]].vol >= 0
          /\ (e[2] \in DOMAIN ramp /\ ramp[e[2]] = 0) => calc[e[1]][e[2]].vol = 0
    /\ \A j \in 1..Len(new_df) : new_df[j].vol >= 0

----------------------------------------------------------------------------
(* C9 *)

\* C9: a row is projected only if its three fields are present; a row with
\* a missing name is dropped though its units and start are valid, and the
\* run produces what it produces without the incomplete rows.
C9_MissingFieldDropped ==
    errAt = "none" =>
        /\ Len(calc) <= Len(SelectSeq(new_sites, Complete))
        /\ \A ref \in {Run(params, SelectSeq(new_sites, Complete))} :
              /\ calc = ref.calc
              /\ new_df = ref.new_df
              /\ rendered = ref.rendered

\* a row without a name but with valid units and start, beside a valid row
C9_Witness ==
    /\ errAt = "none" /\ rendered
    /\ \E i, j \in 1..Len(new_sites) :
          /\ new_sites[i].name = NaN
          /\ new_sites[i].units # NaN /\ new_sites[i].start # NaN
          /\ ~Malformed(new_sites[i]) /\ UnitsOf(new_sites[i]) > 0
          /\ ValidSite(new_sites[j])
          /\ Len(calc) = 1

----------------------------------------------------------------------------
(* C10 *)

\* an integer literal: digits, with an optional sign
IntegerLiteral(t) ==
    \/ t # <<>> /\ \A i \in 1..Len(t) : IsDigit(t[i])
    \/ Len(t) > 1 /\ t[1] \in {"+", "-"} /\ \A i \in 2..Len(t) : IsDigit(t[i])

\* the commas of a text, with the two ends
Bounds(t) == {0, Len(t) + 1} \cup {i \in 1..Len(t) : t[i] = ","}

\* some entry between two neighbouring commas is not an integer literal
BadRampText(t) ==
    \E a, b \in Bounds(t) :
        /\ a < b
        /\ \A c \in Bounds(t) : ~(a < c /\ c < b)
        /\ ~IntegerLiteral(SubSeq(t, a + 1, b - 1))

RampCellBad == params["ramp"] # NoRow /\ BadRampText(params["ramp"].s)

\* the consumption cell is a text that is not a decimal number
AvgNotNumeric ==
    /\ params["hh_avg"].k = "str"
    /\ \/ \E i \in 1..Len(params["hh_avg"].s) :
             ~IsDigit(params["hh_avg"].s[i]) /\ params["hh_avg"].s[i] \notin {".", "+", "-"}
       \/ \A i \in 1..Len(params["hh_avg"].s) : ~IsDigit(params["hh_avg"].s[i])

\* C10: the shared parameters are parsed before the loop and outside its
\* error isolation: a ramp entry that is not an integer literal, or a
\* consumption that is not numeric, ends the run before any site is
\* projected and no series is produced, whatever the site rows.
C10_ParamsParsedFirst ==
    (RampCellBad \/ AvgNotNumeric) =>
        /\ errAt = "params"
        /\ calc = <<>>
        /\ new_df = <<>>
        /\ ~rendered

\* a ramp entry 30.5 while the table holds a valid site
C10_Witness ==
    /\ params["ramp"] = StrCell(T_30p5_60)
    /\ ~AvgNotNumeric
    /\ errAt = "params"
    /\ \E i \in 1..Len(new_sites) : ValidSite(new_sites[i]) /\ UnitsOf(new_sites[i]) > 0

====
